---- MODULE Spec2Model ----
(***************************************************************************)
(* Model of doc_parser.py: the numbering resolver of process_docx, the     *)
(* answer-key scanner parse_answer_key, the MCQ segmenter parse_questions  *)
(* and the emitter create_output_doc.                                      *)
(*                                                                         *)
(* A string is a sequence of one-character strings; a line list is a       *)
(* sequence of strings.  Regular expressions are matched by MatchEnds, a   *)
(* backtracking matcher over sequences of quantified character classes.    *)
(***************************************************************************)
EXTENDS Integers, Sequences, FiniteSets, TLC

\* ------------------------------------------------------------------------
\* Characters
\* ------------------------------------------------------------------------
UpperCase == <<"A","B","C","D","E","F","G","H","I","J","K","L","M",
               "N","O","P","Q","R","S","T","U","V","W","X","Y","Z">>
LowerCase == <<"a","b","c","d","e","f","g","h","i","j","k","l","m",
               "n","o","p","q","r","s","t","u","v","w","x","y","z">>
Digits == <<"0","1","2","3","4","5","6","7","8","9">>

Range(f) == { f[x] : x \in DOMAIN f }

\* str.lower() on one character
Lower(c) ==
    IF \E n \in 1..26 : UpperCase[n] = c
    THEN LowerCase[CHOOSE n \in 1..26 : UpperCase[n] = c]
    ELSE c

\* str.lower() on a string
LowerStr(s) == [n \in 1..Len(s) |-> Lower(s[n])]

IsSpace(c) == c \in {" ", "\t"}
IsDigit(c) == c \in Range(Digits)
IsWord(c)  == c \in Range(UpperCase) \cup Range(LowerCase) \cup Range(Digits) \cup {"_"}
AnswerLetters == {"a","b","c","d","e","A","B","C","D","E"}

\* ------------------------------------------------------------------------
\* Regular expressions: a pattern is a sequence of [k, c, q] elements,
\* k the class kind, c its literal or set, q the quantifier.
\* ------------------------------------------------------------------------
Lit(ch)     == [k |-> "lit", c |-> {ch}, q |-> "1"]   \* literal under (?i)
OneOf(set)  == [k |-> "set", c |-> set,  q |-> "1"]
WsStar      == [k |-> "s",   c |-> {},   q |-> "*"]   \* \s*
WsPlus      == [k |-> "s",   c |-> {},   q |-> "+"]   \* \s+
DigitPlus   == [k |-> "d",   c |-> {},   q |-> "+"]   \* \d+
NonSpace    == [k |-> "S",   c |-> {},   q |-> "1"]   \* \S
AnyStar     == [k |-> "any", c |-> {},   q |-> "*"]   \* .*
AnyPlus     == [k |-> "any", c |-> {},   q |-> "+"]   \* .+
Word(w)     == [n \in 1..Len(w) |-> Lit(w[n])]

InClass(ch, e) ==
    CASE e.k = "lit" -> Lower(ch) \in e.c
      [] e.k = "set" -> ch \in e.c
      [] e.k = "s"   -> IsSpace(ch)
      [] e.k = "d"   -> IsDigit(ch)
      [] e.k = "S"   -> ~IsSpace(ch)
      [] e.k = "any" -> TRUE

\* number of consecutive characters of s from position i that are in class e
RECURSIVE RunLen(_, _, _)
RunLen(e, s, i) ==
    IF i > Len(s) \/ ~InClass(s[i], e) THEN 0 ELSE 1 + RunLen(e, s, i + 1)

\* the positions just after a match of pat[k..] that starts at position i
RECURSIVE MatchEnds(_, _, _, _)
MatchEnds(pat, k, s, i) ==
    IF k > Len(pat) THEN {i}
    ELSE LET e   == pat[k]
             run == RunLen(e, s, i)
             ns  == CASE e.q = "1" -> IF run >= 1 THEN {1} ELSE {}
                      [] e.q = "*" -> 0..run
                      [] e.q = "+" -> 1..run
         IN  UNION { MatchEnds(pat, k + 1, s, i + n) : n \in ns }

\* pattern.match(s): anchored at the start of s
MatchAtStart(pat, s) == MatchEnds(pat, 1, s, 1)
\* pattern.search(s): anywhere in s
SearchAny(pat, s) == \E i \in 1..(Len(s) + 1) : MatchEnds(pat, 1, s, i) # {}

\* \b at position j (between s[j-1] and s[j])
WordBoundary(s, j) ==
    LET before == j > 1 /\ j - 1 <= Len(s) /\ IsWord(s[j - 1])
        after  == j >= 1 /\ j <= Len(s) /\ IsWord(s[j])
    IN  before # after

Max(S) == CHOOSE x \in S : \A y \in S : y <= x

\* str.strip()
RECURSIVE LStrip(_)
LStrip(s) == IF s # <<>> /\ IsSpace(Head(s)) THEN LStrip(Tail(s)) ELSE s
RECURSIVE RStrip(_)
RStrip(s) ==
    IF s # <<>> /\ IsSpace(s[Len(s)]) THEN RStrip(SubSeq(s, 1, Len(s) - 1)) ELSE s
Strip(s) == RStrip(LStrip(s))

\* ------------------------------------------------------------------------
\* The module-level patterns
\* ------------------------------------------------------------------------
QUESTION_WORD == <<"q","u","e","s","t","i","o","n">>
\* (?i)^(question(\s*\d+)?)\b|^(\d+[\.\)]\s+\S.*)
QuestionBare     == Word(QUESTION_WORD)
QuestionNumbered == Word(QUESTION_WORD) \o <<WsStar, DigitPlus>>
NumberedText     == <<DigitPlus, OneOf({".", ")"}), WsPlus, NonSpace, AnyStar>>
QUESTION_START(ln) ==
    \/ \E e \in MatchAtStart(QuestionBare, ln) : WordBoundary(ln, e)
    \/ \E e \in MatchAtStart(QuestionNumbered, ln) : WordBoundary(ln, e)
    \/ MatchAtStart(NumberedText, ln) # {}

\* (?i)(essay|true\s*or\s*false|true/false|short\s*answer|long\s*answer)
NonMcqPatterns ==
    { Word(<<"e","s","s","a","y">>),
      Word(<<"t","r","u","e">>) \o <<WsStar>> \o Word(<<"o","r">>) \o <<WsStar>>
          \o Word(<<"f","a","l","s","e">>),
      Word(<<"t","r","u","e","/","f","a","l","s","e">>),
      Word(<<"s","h","o","r","t">>) \o <<WsStar>> \o Word(<<"a","n","s","w","e","r">>),
      Word(<<"l","o","n","g">>) \o <<WsStar>> \o Word(<<"a","n","s","w","e","r">>) }
NON_MCQ_SECTION(ln) == \E pat \in NonMcqPatterns : SearchAny(pat, ln)

\* (?i)^answer\s*key
AnswerKeyPattern ==
    Word(<<"a","n","s","w","e","r">>) \o <<WsStar>> \o Word(<<"k","e","y">>)
ANSWER_KEY(ln) == MatchAtStart(AnswerKeyPattern, ln) # {}

\* ^\s*\d+[\.\)]\s+(.+)$ : the prefix before group 1
OptionNumericPrefix == <<WsStar, DigitPlus, OneOf({".", ")"}), WsPlus>>
\* ^\s*[a-eA-E][\.\)]\s*(.+)$ : the prefix before group 1
OptionLetterPrefix == <<WsStar, OneOf(AnswerLetters), OneOf({".", ")"}), WsStar>>

\* start positions of group 1, which is (.+)$ and so needs one character
GroupStarts(prefix, ln) == { j \in MatchAtStart(prefix, ln) : j <= Len(ln) }

OPTION_NUMERIC(ln) == GroupStarts(OptionNumericPrefix, ln) # {}
OPTION_LETTER(ln)  == GroupStarts(OptionLetterPrefix, ln) # {}
\* m.group(1): the greedy prefix leaves the shortest group
Group1(prefix, ln) == SubSeq(ln, Max(GroupStarts(prefix, ln)), Len(ln))

clean_option_text(t0) ==
    LET t == Strip(t0)
    IN  IF OPTION_LETTER(t) THEN Strip(Group1(OptionLetterPrefix, t))
        ELSE IF OPTION_NUMERIC(t) THEN Strip(Group1(OptionNumericPrefix, t))
        ELSE t

\* ------------------------------------------------------------------------
\* Numbering resolver helpers
\* ------------------------------------------------------------------------
None == -1

\* str(n) for n >= 0
RECURSIVE Str(_)
Str(n) == IF n < 10 THEN <<Digits[n + 1]>> ELSE Str(n \div 10) \o <<Digits[(n % 10) + 1]>>

\* chr(ord("a") + (n - 1)) and chr(ord("A") + (n - 1)), for n in 1..26 (the
\* counters of the model stay far below 26)
ChrLower(n) == LowerCase[n]
ChrUpper(n) == UpperCase[n]

RomanVals == << <<1000, <<"M">> >>, <<900, <<"C","M">> >>, <<500, <<"D">> >>,
                <<400, <<"C","D">> >>, <<100, <<"C">> >>, <<90, <<"X","C">> >>,
                <<50, <<"L">> >>, <<40, <<"X","L">> >>, <<10, <<"X">> >>,
                <<9, <<"I","X">> >>, <<5, <<"V">> >>, <<4, <<"I","V">> >>,
                <<1, <<"I">> >> >>

RECURSIVE RomanFrom(_, _)
RomanFrom(n, k) ==
    IF k > Len(RomanVals) THEN <<>>
    ELSE IF n >= RomanVals[k][1]
         THEN RomanVals[k][2] \o RomanFrom(n - RomanVals[k][1], k)
         ELSE RomanFrom(n, k + 1)
to_roman(n) == RomanFrom(n, 1)

convert_level_to_number(n, fmt) ==
    CASE fmt = "decimal"     -> Str(n)
      [] fmt = "lowerLetter" -> <<ChrLower(n)>>
      [] fmt = "upperLetter" -> <<ChrUpper(n)>>
      [] fmt = "lowerRoman"  -> LowerStr(to_roman(n))
      [] fmt = "upperRoman"  -> to_roman(n)
      [] OTHER               -> Str(n)

StartsWithAt(s, i, w) ==
    /\ i + Len(w) - 1 <= Len(s)
    /\ \A n \in 1..Len(w) : s[i + n - 1] = w[n]

\* str.replace(old, new), old non-empty
RECURSIVE ReplaceFrom(_, _, _, _)
ReplaceFrom(s, i, old, new) ==
    IF i > Len(s) THEN <<>>
    ELSE IF StartsWithAt(s, i, old) THEN new \o ReplaceFrom(s, i + Len(old), old, new)
    ELSE <<s[i]>> \o ReplaceFrom(s, i + 1, old, new)
Replace(s, old, new) == ReplaceFrom(s, 1, old, new)

Contains(s, ch) == \E n \in 1..Len(s) : s[n] = ch

\* The numbering part of a document: [present, num, abstractNum].  num maps
\* a numId to its abstractNumId (None: no w:abstractNumId child),
\* abstractNum maps an abstractNumId to its levels, a level to
\* [numFmt, lvlText]; a missing numFmt is "None", a missing lvlText is <<>>
\* (process_docx treats a None lvlText and an empty one alike).
NoStyle == [numFmt |-> "None", lvlText |-> <<>>]

get_level_format_from_numId(numbering, numId, ilvl) ==
    IF ~numbering.present THEN NoStyle
    ELSE IF numId \notin DOMAIN numbering.num THEN NoStyle
    ELSE IF numbering.num[numId] = None THEN NoStyle
    ELSE IF numbering.num[numId] \notin DOMAIN numbering.abstractNum THEN NoStyle
    ELSE IF ilvl \notin DOMAIN numbering.abstractNum[numbering.num[numId]] THEN NoStyle
    ELSE numbering.abstractNum[numbering.num[numId]][ilvl]

\* KeptLevels deleting the paragraph's own level too (deeper >= ilvl)
KeptLevels_DropsOwn(cs, last, ilvl) ==
    IF last = -1 \/ ilvl <= last
    THEN { l \in DOMAIN cs : ~(l >= ilvl) }
    ELSE DOMAIN cs

\* KeptLevels without the deletion of lines 332-334
KeptLevels_KeepsAll(cs, last, ilvl) == DOMAIN cs

\* lines 331-336: the counters of one numId after a paragraph at ilvl; cs is
\* counters[numId] (a function from the levels that have a counter), last is
\* last_level_for_num[numId]
KeptLevels(cs, last, ilvl) ==
    IF last = -1 \/ ilvl <= last
    THEN { l \in DOMAIN cs : ~(l > ilvl) }
    ELSE DOMAIN cs

BumpCounters(cs, last, ilvl) ==
    LET kept == KeptLevels(cs, last, ilvl)
    IN  [l \in kept \cup {ilvl} |->
            IF l = ilvl THEN (IF ilvl \in kept THEN cs[ilvl] ELSE 0) + 1 ELSE cs[l]]

\* UpdateCounters bumping the level in every list instead of counters[numId]
UpdateCounters_AllLists(cs, last, numId, ilvl) ==
    [n \in DOMAIN cs |-> BumpCounters(cs[n], last[n], ilvl)]

\* lines 331-335 on the whole mapping: only counters[numId] changes
UpdateCounters(cs, last, numId, ilvl) ==
    [cs EXCEPT ![numId] = BumpCounters(@, last[numId], ilvl)]

\* PastMarker never taking the shortcut of lines 300-302
PastMarker_Never(idx) == FALSE

\* line 300: the non-MCQ section has begun
PastMarker(idx) == idx # None

\* ResolvePrefix whose default form lacks the period of lines 351 and 354
ResolvePrefix_NoPeriod(style, n, ilvl) ==
    IF style.numFmt = "bullet"
    THEN (IF style.lvlText # <<>> THEN style.lvlText ELSE <<"*">>) \o <<" ">>
    ELSE LET val == convert_level_to_number(n, style.numFmt)
         IN  IF style.lvlText # <<>> /\ Contains(style.lvlText, "%")
             THEN Replace(style.lvlText, <<"%">> \o Str(ilvl + 1), val) \o <<" ">>
             ELSE val \o <<" ">>

\* lines 338-354; "*" stands for the default bullet glyph of line 343
ResolvePrefix(style, n, ilvl) ==
    IF style.numFmt = "bullet"
    THEN (IF style.lvlText # <<>> THEN style.lvlText ELSE <<"*">>) \o <<" ">>
    ELSE LET val == convert_level_to_number(n, style.numFmt)
         IN  IF style.lvlText # <<>> /\ Contains(style.lvlText, "%")
             THEN Replace(style.lvlText, <<"%">> \o Str(ilvl + 1), val) \o <<" ">>
             ELSE val \o <<".", " ">>

\* ------------------------------------------------------------------------
\* parse_answer_key
\* ------------------------------------------------------------------------
\* lines 126-129: 0-based index of the line after the first answer-key
\* marker, None without a marker
AnswerKeyStart(lines) ==
    IF \E n \in 1..Len(lines) : ANSWER_KEY(lines[n])
    THEN CHOOSE n \in 1..Len(lines) :
            /\ ANSWER_KEY(lines[n])
            /\ \A m \in 1..(n - 1) : ~ANSWER_KEY(lines[m])
    ELSE None

\* \d+[\.\)]\s*([a-eA-E])
AnswerDotted == <<DigitPlus, OneOf({".", ")"}), WsStar, OneOf(AnswerLetters)>>
\* \d+\s+([a-eA-E])
AnswerSpaced == <<DigitPlus, WsPlus, OneOf(AnswerLetters)>>

\* the letter captured by a pattern that ends with ([a-eA-E])
LastLetter(pat, ln) == ln[Max(MatchAtStart(pat, ln)) - 1]

\* LineAnswers without the lower-casing of lines 145, 151 and 157
LineAnswers_KeepsCase(ln) ==
    IF Len(ln) = 1 /\ ln[1] \in AnswerLetters THEN <<ln[1]>>
    ELSE IF MatchAtStart(AnswerDotted, ln) # {} THEN <<LastLetter(AnswerDotted, ln)>>
    ELSE IF MatchAtStart(AnswerSpaced, ln) # {} THEN <<LastLetter(AnswerSpaced, ln)>>
    ELSE <<>>

\* lines 143-158 on a stripped, non-empty, non-marker line: the answers the
\* line appends (none or one)
LineAnswers(ln) ==
    IF Len(ln) = 1 /\ ln[1] \in AnswerLetters THEN <<Lower(ln[1])>>
    ELSE IF MatchAtStart(AnswerDotted, ln) # {} THEN <<Lower(LastLetter(AnswerDotted, ln))>>
    ELSE IF MatchAtStart(AnswerSpaced, ln) # {} THEN <<Lower(LastLetter(AnswerSpaced, ln))>>
    ELSE <<>>

\* AnswerScanStops without the break of lines 140-141
AnswerScanStops_Never(ln) == FALSE

\* line 140: the scan stops at this line
AnswerScanStops(ln) == Strip(ln) # <<>> /\ NON_MCQ_SECTION(Strip(ln))

\* ------------------------------------------------------------------------
\* parse_questions
\* ------------------------------------------------------------------------
\* IsTerminator without the answer-key test of line 178
IsTerminator_NonMcqOnly(ln) == NON_MCQ_SECTION(ln)

\* line 178
IsTerminator(ln) == NON_MCQ_SECTION(ln) \/ ANSWER_KEY(ln)
IsOption(ln) == OPTION_NUMERIC(ln) \/ OPTION_LETTER(ln)

\* PlaceholderQuestion without the option of line 240
PlaceholderQuestion_NoOption(n, ln) == [number |-> n, question |-> <<>>, options |-> <<>>]

\* line 221
OpenQuestion(n, ln) == [number |-> n, question |-> Strip(ln), options |-> <<>>]
\* lines 237-241
PlaceholderQuestion(n, ln) ==
    [number |-> n, question |-> <<>>, options |-> <<clean_option_text(ln)>>]
\* lines 190, 194
AddOption(q, ln) == [q EXCEPT !.options = Append(@, clean_option_text(ln))]
\* Continue joining without the separating space of lines 209 and 213
Continue_NoSpace(q, ln) ==
    IF q.options # <<>>
    THEN [q EXCEPT !.options[Len(q.options)] = Strip(@ \o Strip(ln))]
    ELSE [q EXCEPT !.question = Strip(@ \o Strip(ln))]

\* lines 206-213
Continue(q, ln) ==
    IF q.options # <<>>
    THEN [q EXCEPT !.options[Len(q.options)] = Strip(@ \o <<" ">> \o Strip(ln))]
    ELSE [q EXCEPT !.question = Strip(@ \o <<" ">> \o Strip(ln))]

\* NormalizeOptions without the truncation of line 260
NormalizeOptions_PadsOnly(opts) ==
    [n \in 1..(IF Len(opts) < 5 THEN 5 ELSE Len(opts)) |->
        IF n <= Len(opts) THEN opts[n] ELSE <<>>]

\* lines 255-260
NormalizeOptions(opts) ==
    [n \in 1..5 |-> IF n <= Len(opts) THEN opts[n] ELSE <<>>]

\* The loop state is [i, current, qs, qnum, stop]; current is <<>> for None
\* and <<q>> for an open question q; stop is set by the break of line 179.
PQInit == [i |-> 0, current |-> <<>>, qs |-> <<>>, qnum |-> 1, stop |-> FALSE]

\* PQStep testing the question start (line 199) before the option patterns
\* (lines 189-196)
PQStep_StartFirst(st, lines) ==
    LET ln == lines[st.i + 1]
    IN  IF IsTerminator(ln) THEN [st EXCEPT !.stop = TRUE]
        ELSE IF st.current # <<>>
        THEN IF QUESTION_START(ln)
             THEN [st EXCEPT !.qs = Append(@, st.current[1]), !.current = <<>>]
             ELSE IF IsOption(ln)
             THEN [st EXCEPT !.current = <<AddOption(st.current[1], ln)>>, !.i = @ + 1]
             ELSE [st EXCEPT !.current = <<Continue(st.current[1], ln)>>, !.i = @ + 1]
        ELSE IF QUESTION_START(ln)
        THEN [st EXCEPT !.current = <<OpenQuestion(st.qnum, ln)>>,
                        !.qnum = @ + 1, !.i = @ + 1]
        ELSE IF IsOption(ln)
        THEN IF st.qs # <<>>
             THEN [st EXCEPT !.qs[Len(st.qs)] = AddOption(@, ln), !.i = @ + 1]
             ELSE [st EXCEPT !.current = <<PlaceholderQuestion(st.qnum, ln)>>,
                             !.qnum = @ + 1, !.i = @ + 1]
        ELSE [st EXCEPT !.i = @ + 1]

\* PQStep without the i += 1 of line 223
PQStep_OpenKeepsLine(st, lines) ==
    LET ln == lines[st.i + 1]
    IN  IF IsTerminator(ln) THEN [st EXCEPT !.stop = TRUE]
        ELSE IF st.current # <<>>
        THEN IF IsOption(ln)
             THEN [st EXCEPT !.current = <<AddOption(st.current[1], ln)>>, !.i = @ + 1]
             ELSE IF QUESTION_START(ln)
             THEN [st EXCEPT !.qs = Append(@, st.current[1]), !.current = <<>>]
             ELSE [st EXCEPT !.current = <<Continue(st.current[1], ln)>>, !.i = @ + 1]
        ELSE IF QUESTION_START(ln)
        THEN [st EXCEPT !.current = <<OpenQuestion(st.qnum, ln)>>, !.qnum = @ + 1]
        ELSE IF IsOption(ln)
        THEN IF st.qs # <<>>
             THEN [st EXCEPT !.qs[Len(st.qs)] = AddOption(@, ln), !.i = @ + 1]
             ELSE [st EXCEPT !.current = <<PlaceholderQuestion(st.qnum, ln)>>,
                             !.qnum = @ + 1, !.i = @ + 1]
        ELSE [st EXCEPT !.i = @ + 1]

\* PQStep whose close (lines 199-203) also consumes the line
PQStep_CloseAdvances(st, lines) ==
    LET ln == lines[st.i + 1]
    IN  IF IsTerminator(ln) THEN [st EXCEPT !.stop = TRUE]
        ELSE IF st.current # <<>>
        THEN IF IsOption(ln)
             THEN [st EXCEPT !.current = <<AddOption(st.current[1], ln)>>, !.i = @ + 1]
             ELSE IF QUESTION_START(ln)
             THEN [st EXCEPT !.qs = Append(@, st.current[1]), !.current = <<>>, !.i = @ + 1]
             ELSE [st EXCEPT !.current = <<Continue(st.current[1], ln)>>, !.i = @ + 1]
        ELSE IF QUESTION_START(ln)
        THEN [st EXCEPT !.current = <<OpenQuestion(st.qnum, ln)>>,
                        !.qnum = @ + 1, !.i = @ + 1]
        ELSE IF IsOption(ln)
        THEN IF st.qs # <<>>
             THEN [st EXCEPT !.qs[Len(st.qs)] = AddOption(@, ln), !.i = @ + 1]
             ELSE [st EXCEPT !.current = <<PlaceholderQuestion(st.qnum, ln)>>,
                             !.qnum = @ + 1, !.i = @ + 1]
        ELSE [st EXCEPT !.i = @ + 1]

\* one iteration of the while loop, lines 174-247
PQStep(st, lines) ==
    LET ln == lines[st.i + 1]
    IN  IF IsTerminator(ln) THEN [st EXCEPT !.stop = TRUE]
        ELSE IF st.current # <<>>
        THEN IF IsOption(ln)
             THEN [st EXCEPT !.current = <<AddOption(st.current[1], ln)>>, !.i = @ + 1]
             ELSE IF QUESTION_START(ln)
             THEN [st EXCEPT !.qs = Append(@, st.current[1]), !.current = <<>>]
             ELSE [st EXCEPT !.current = <<Continue(st.current[1], ln)>>, !.i = @ + 1]
        ELSE IF QUESTION_START(ln)
        THEN [st EXCEPT !.current = <<OpenQuestion(st.qnum, ln)>>,
                        !.qnum = @ + 1, !.i = @ + 1]
        ELSE IF IsOption(ln)
        THEN IF st.qs # <<>>
             THEN [st EXCEPT !.qs[Len(st.qs)] = AddOption(@, ln), !.i = @ + 1]
             ELSE [st EXCEPT !.current = <<PlaceholderQuestion(st.qnum, ln)>>,
                             !.qnum = @ + 1, !.i = @ + 1]
        ELSE [st EXCEPT !.i = @ + 1]

PQRunning(st, lines) == ~st.stop /\ st.i < Len(lines)

\* PQFinish without the append of lines 250-251
PQFinish_DropsOpen(st) ==
    [n \in 1..Len(st.qs) |-> [st.qs[n] EXCEPT !.options = NormalizeOptions(@)]]

\* lines 249-262
PQFinish(st) ==
    LET all == IF st.current # <<>> THEN Append(st.qs, st.current[1]) ELSE st.qs
    IN  [n \in 1..Len(all) |-> [all[n] EXCEPT !.options = NormalizeOptions(@)]]

RECURSIVE PQRun(_, _)
PQRun(st, lines) == IF PQRunning(st, lines) THEN PQRun(PQStep(st, lines), lines) ELSE st

parse_questions(lines) == PQFinish(PQRun(PQInit, lines))

\* ------------------------------------------------------------------------
\* create_output_doc
\* ------------------------------------------------------------------------
OptionLetters == <<"a", "b", "c", "d", "e">>
PageBreak == <<"\f">>

\* HasAnswer with the index compared off by one
HasAnswer_OffByOne(qnum, answers) == qnum < Len(answers)

\* line 278
HasAnswer(qnum, answers) == qnum - 1 < Len(answers)

\* lines 272-280: the paragraphs written for one question
QuestionBlock(q, answers) ==
    << <<"Q","u","e","s","t","i","o","n"," ">> \o Str(q.number) \o <<")", " ">>
       \o q.question >>
    \o [n \in 1..(IF Len(q.options) < 5 THEN Len(q.options) ELSE 5) |->
            <<OptionLetters[n], ".", " ">> \o q.options[n]]
    \o (IF HasAnswer(q.number, answers)
        THEN << <<"A","n","s","w","e","r",":"," ">> \o <<answers[q.number]>> >>
        ELSE <<>>)
    \o << <<>> >>

RECURSIVE QuestionBlocks(_, _, _)
QuestionBlocks(questions, n, answers) ==
    IF n > Len(questions) THEN <<>>
    ELSE QuestionBlock(questions[n], answers) \o QuestionBlocks(questions, n + 1, answers)

\* NonMcqTail starting one line late
NonMcqTail_SkipsMarker(idx, original_lines) ==
    IF idx # None /\ idx < Len(original_lines)
    THEN <<PageBreak>> \o SubSeq(original_lines, idx + 2, Len(original_lines))
    ELSE <<>>

\* lines 283-286
NonMcqTail(idx, original_lines) ==
    IF idx # None /\ idx < Len(original_lines)
    THEN <<PageBreak>> \o SubSeq(original_lines, idx + 1, Len(original_lines))
    ELSE <<>>

create_output_doc(questions, answers, idx, original_lines) ==
    QuestionBlocks(questions, 1, answers) \o NonMcqTail(idx, original_lines)

\* ------------------------------------------------------------------------
\* Input documents
\* ------------------------------------------------------------------------
\* a paragraph is [text, numId, ilvl]; numId = None: no numPr; ilvl = None:
\* numPr without ilvl
Plain(t) == [text |-> t, numId |-> None, ilvl |-> None]
Numbered(t, n, l) == [text |-> t, numId |-> n, ilvl |-> l]

TextQuestion == <<"Q","u","e","s","t","i","o","n"," ","1",")"," ","T">>
TextNumbered == <<"1","."," ","b">>
TextOption   == <<"a","."," ","P">>
TextLetter   == <<"D">>
TextPlain    == <<"x"," ","a">>
TextEssay    == <<"E","s","s","a","y">>
TextKey      == <<"A","n","s","w","e","r"," ","K","e","y">>
TextBlank    == <<>>
TextItem     == <<"7">>

NumIds == {1, 2}

\* a numbering part: list 1 has three levels, list 2 is not defined
SampleNumbering ==
    [present |-> TRUE,
     num |-> (1 :> 10),
     abstractNum |-> (10 :> (0 :> [numFmt |-> "decimal", lvlText |-> <<"%", "1", ".">>]
                          @@ 1 :> [numFmt |-> "lowerLetter", lvlText |-> <<"%", "2", ")">>]
                          @@ 2 :> [numFmt |-> "lowerRoman", lvlText |-> <<>>]))]
NoNumbering == [present |-> FALSE, num |-> <<>>, abstractNum |-> <<>>]
\* a numbering part with gaps: list 1 defines level 0 only, the abstract
\* numbering of list 2 is missing
SparseNumbering ==
    [present |-> TRUE,
     num |-> (1 :> 10 @@ 2 :> 11),
     abstractNum |-> (10 :> (0 :> [numFmt |-> "upperRoman", lvlText |-> <<"%", "1", ")">>]))]

MaxParas == 3
MaxOptionLines == 7
MaxPlainLines == 1
MaxLevel == 1
MaxListParas == 5
MaxMixedParas == 4
MaxKeyLines == 3
MaxKeyQuestions == 3
MaxSectionQuestions == 2
MaxTailParas == 2
MaxUnstyledParas == 3

SeqsUpTo(S, n) == UNION { [1..m -> S] : m \in 0..n }

\* short documents over every kind of line
GeneralParas ==
    { Plain(TextQuestion), Plain(TextNumbered), Plain(TextOption),
      Plain(TextEssay), Plain(TextKey) }
GeneralDocs == SeqsUpTo(GeneralParas, MaxParas)

\* option blocks longer than the five slots, with or without a question
\* line, with a few continuation lines (some blank) among the options
OptionParas == { Plain(TextOption), Plain(TextPlain), Plain(TextBlank) }
OptionBodies ==
    { body \in SeqsUpTo(OptionParas, MaxOptionLines) :
        Cardinality({ n \in DOMAIN body : body[n] # Plain(TextOption) }) <= MaxPlainLines }
OptionDocs ==
    { head \o body : head \in { <<>>, <<Plain(TextNumbered)>> }, body \in OptionBodies }

\* one numbered list of empty paragraphs with nested levels
NestedParas == { Numbered(TextBlank, 1, l) : l \in 0..MaxLevel }
NestedDocs == [1..MaxListParas -> NestedParas]

\* two numbered lists and plain paragraphs interleaved
MixedParas ==
    { Numbered(TextItem, 1, 0), Numbered(TextItem, 1, 1), Numbered(TextItem, 2, None),
      Plain(TextItem) }
MixedDocs == [1..MaxMixedParas -> MixedParas]

\* questions followed by an answer key
KeyParas == { Plain(TextLetter), Plain(<<"b">>), Plain(TextBlank) }
KeyDocs ==
    { [n \in 1..q |-> Plain(TextQuestion)] \o <<Plain(TextKey)>> \o region :
        q \in 0..MaxKeyQuestions, region \in SeqsUpTo(KeyParas, MaxKeyLines) }

\* questions followed by a non-MCQ section
TailParas == { Plain(TextNumbered), Plain(TextKey), Numbered(TextItem, 1, 0) }
SectionDocs ==
    { [n \in 1..q |-> Plain(TextQuestion)] \o <<Plain(TextEssay)>> \o tail :
        q \in 0..MaxSectionQuestions, tail \in SeqsUpTo(TailParas, MaxTailParas) }

\* numbered paragraphs whose style lookup fails
UnstyledParas ==
    { Numbered(TextItem, 1, 0), Numbered(TextItem, 1, 1), Numbered(TextItem, 2, 0) }
UnstyledDocs == [1..MaxUnstyledParas -> UnstyledParas]

\* ------------------------------------------------------------------------
\* process_docx as a state machine
\* ------------------------------------------------------------------------
VARIABLES
    paragraphs,          \* doc.paragraphs
    numbering,           \* the numbering part of doc
    p,                   \* paragraphs consumed by the loop of line 297
    lines,
    non_mcq_index,
    counters,            \* numId -> (ilvl -> count)
    last_level_for_num,  \* numId -> ilvl, -1 before the first paragraph
    start,               \* parse_answer_key: start
    j,                   \* parse_answer_key: 0-based index of the scanned line
    answers,
    i, current, qs, qnum, \* parse_questions
    iterations,          \* parse_questions: iterations of the loop of line 174 so far
    questions,           \* the list parse_questions returned
    out,                 \* the paragraphs of the output document
    pc

vars == <<paragraphs, numbering, p, lines, non_mcq_index, counters,
          last_level_for_num, start, j, answers, i, current, qs, qnum,
          iterations, questions, out, pc>>

inputVars   == <<paragraphs, numbering>>
readVars    == <<p, lines, non_mcq_index, counters, last_level_for_num>>
keyVars     == <<start, j, answers>>
parseVars   == <<i, current, qs, qnum, iterations, questions>>

Init ==
    /\ \/ paragraphs \in GeneralDocs /\ numbering = NoNumbering
       \/ paragraphs \in OptionDocs /\ numbering = NoNumbering
       \/ paragraphs \in NestedDocs /\ numbering = SampleNumbering
       \/ paragraphs \in MixedDocs /\ numbering = SampleNumbering
       \/ paragraphs \in KeyDocs /\ numbering = NoNumbering
       \/ paragraphs \in SectionDocs /\ numbering = SampleNumbering
       \/ paragraphs \in UnstyledDocs /\ numbering \in {NoNumbering, SparseNumbering}
    /\ p = 0
    /\ lines = <<>>
    /\ non_mcq_index = None
    /\ counters = [n \in NumIds |-> <<>>]
    /\ last_level_for_num = [n \in NumIds |-> -1]
    /\ start = None
    /\ j = 0
    /\ answers = <<>>
    /\ i = 0
    /\ current = <<>>
    /\ qs = <<>>
    /\ qnum = 1
    /\ iterations = 0
    /\ questions = <<>>
    /\ out = <<>>
    /\ pc = "read"

\* line 322
LevelOf(para) == IF para.ilvl # None THEN para.ilvl ELSE 0

\* lines 338-356: the line appended for a numbered paragraph, n its counter
NumberedLine(para, n) ==
    ResolvePrefix(get_level_format_from_numId(numbering, para.numId, LevelOf(para)),
                  n, LevelOf(para)) \o para.text

\* one iteration of the loop of lines 297-356
ProcessParagraph ==
    /\ pc = "read"
    /\ p < Len(paragraphs)
    /\ LET para == paragraphs[p + 1]
           ilvl == LevelOf(para)
       IN  IF PastMarker(non_mcq_index)
           THEN /\ lines' = Append(lines, para.text)
                /\ UNCHANGED <<non_mcq_index, counters, last_level_for_num>>
           ELSE IF NON_MCQ_SECTION(para.text)
           THEN /\ non_mcq_index' = Len(lines)
                /\ lines' = Append(lines, para.text)
                /\ UNCHANGED <<counters, last_level_for_num>>
           ELSE IF para.numId = None
           THEN /\ lines' = Append(lines, para.text)
                /\ UNCHANGED <<non_mcq_index, counters, last_level_for_num>>
           ELSE /\ counters' = UpdateCounters(counters, last_level_for_num, para.numId, ilvl)
                /\ last_level_for_num' = [last_level_for_num EXCEPT ![para.numId] = ilvl]
                /\ lines' = Append(lines, NumberedLine(para, counters'[para.numId][ilvl]))
                /\ UNCHANGED non_mcq_index
    /\ p' = p + 1
    /\ UNCHANGED <<inputVars, keyVars, parseVars, out, pc>>

\* lines 358-360
EndOfParagraphs ==
    /\ pc = "read"
    /\ p = Len(paragraphs)
    /\ non_mcq_index' = IF non_mcq_index = None THEN Len(lines) ELSE non_mcq_index
    /\ pc' = "answer_key"
    /\ UNCHANGED <<inputVars, p, lines, counters, last_level_for_num, keyVars,
                   parseVars, out>>

\* parse_answer_key(lines), lines 123-132
AnswerKeyFind ==
    /\ pc = "answer_key"
    /\ start' = AnswerKeyStart(lines)
    /\ j' = IF start' = None THEN j ELSE start'
    /\ pc' = IF start' = None THEN "questions" ELSE "answer_scan"
    /\ UNCHANGED <<inputVars, readVars, answers, parseVars, out>>

\* one iteration of the loop of lines 134-158
AnswerKeyScan ==
    /\ pc = "answer_scan"
    /\ j < Len(lines)
    /\ LET ln == Strip(lines[j + 1])
       IN  IF ln = <<>>
           THEN j' = j + 1 /\ UNCHANGED <<answers, pc>>
           ELSE IF AnswerScanStops(lines[j + 1])
           THEN pc' = "questions" /\ UNCHANGED <<answers, j>>
           ELSE /\ answers' = answers \o LineAnswers(ln)
                /\ j' = j + 1
                /\ UNCHANGED pc
    /\ UNCHANGED <<inputVars, readVars, start, parseVars, out>>

\* line 160, after the last line
AnswerKeyReturn ==
    /\ pc = "answer_scan"
    /\ j = Len(lines)
    /\ pc' = "questions"
    /\ UNCHANGED <<inputVars, readVars, keyVars, parseVars, out>>

\* line 366: the argument of parse_questions
QuestionLines == SubSeq(lines, 1, non_mcq_index)

\* one iteration of the loop of lines 174-247
ParseQuestionsStep ==
    /\ pc = "questions"
    /\ i < Len(QuestionLines)
    /\ \E st \in {PQStep([i |-> i, current |-> current, qs |-> qs, qnum |-> qnum,
                          stop |-> FALSE], QuestionLines)} :
           /\ i' = st.i
           /\ current' = st.current
           /\ qs' = st.qs
           /\ qnum' = st.qnum
           /\ pc' = IF st.stop THEN "finish" ELSE pc
    /\ iterations' = iterations + 1
    /\ UNCHANGED <<inputVars, readVars, keyVars, questions, out>>

\* lines 249-262
ParseQuestionsReturn ==
    /\ \/ pc = "finish"
       \/ pc = "questions" /\ i >= Len(QuestionLines)
    /\ questions' = PQFinish([i |-> i, current |-> current, qs |-> qs, qnum |-> qnum,
                              stop |-> FALSE])
    /\ pc' = "output"
    /\ UNCHANGED <<inputVars, readVars, keyVars, i, current, qs, qnum, iterations, out>>

\* line 368
CreateOutputDoc ==
    /\ pc = "output"
    /\ out' = create_output_doc(questions, answers, non_mcq_index, lines)
    /\ pc' = "done"
    /\ UNCHANGED <<inputVars, readVars, keyVars, parseVars>>

Next ==
    \/ ProcessParagraph
    \/ EndOfParagraphs
    \/ AnswerKeyFind
    \/ AnswerKeyScan
    \/ AnswerKeyReturn
    \/ ParseQuestionsStep
    \/ ParseQuestionsReturn
    \/ CreateOutputDoc

Spec == Init /\ [][Next]_vars

\* ------------------------------------------------------------------------
\* Properties
\* ------------------------------------------------------------------------
Texts == [n \in 1..Len(paragraphs) |-> paragraphs[n].text]
HasPrefix(s, w) == StartsWithAt(s, 1, w)
Drop(s, n) == SubSeq(s, n + 1, Len(s))
AllPlain == \A n \in 1..Len(paragraphs) : paragraphs[n].numId = None

\* paragraph positions (1-based) whose text holds a non-MCQ marker
MarkerAt(m) ==
    /\ m \in 1..Len(paragraphs)
    /\ NON_MCQ_SECTION(paragraphs[m].text)
FirstMarkerAt(m) == MarkerAt(m) /\ \A n \in 1..(m - 1) : ~MarkerAt(n)

QuestionOnePrefix == <<"Q","u","e","s","t","i","o","n"," ","1",")"," ">>

\* the document 'Question 1) T', 'a. O1', ..., 'Answer Key', '1. x'
C1Shape ==
    /\ AllPlain
    /\ Len(paragraphs) - 3 \in 0..5
    /\ HasPrefix(Texts[1], QuestionOnePrefix) /\ Len(Texts[1]) > Len(QuestionOnePrefix)
    /\ \A n \in 1..(Len(paragraphs) - 3) :
          HasPrefix(Texts[n + 1], <<OptionLetters[n], ".", " ">>) /\ Len(Texts[n + 1]) > 3
    /\ Texts[Len(paragraphs) - 1] = TextKey
    /\ Len(Texts[Len(paragraphs)]) = 4
    /\ HasPrefix(Texts[Len(paragraphs)], <<"1", ".", " ">>)
    /\ Texts[Len(paragraphs)][4] \in Range(OptionLetters)

\* C1: for the document 'Question 1) T', k <= 5 lines 'a. O1'.., 'Answer Key',
\* '1. x', parse_questions returns one question, numbered 1, with text T
\* alone and options O1..Ok padded to 5 slots, and parse_answer_key
\* returns x for question 1.
C1_ExampleDocument ==
    (pc = "done" /\ C1Shape) =>
        /\ questions =
              << [number |-> 1,
                  question |-> Drop(Texts[1], Len(QuestionOnePrefix)),
                  options |-> [n \in 1..5 |->
                                 IF n <= Len(paragraphs) - 3
                                 THEN Drop(Texts[n + 1], 3) ELSE <<>>]] >>
        /\ answers = <<Texts[Len(paragraphs)][4]>>

\* C2: when a non-MCQ marker paragraph follows n parsed questions, parsing
\* stops at it (the loop index never passes it, the questions returned are
\* those of the lines before it and no later line changes them), and every
\* line from the marker to the end is emitted after the questions,
\* verbatim and in order.
C2_MarkerEndsParsing ==
    \A m \in 1..Len(paragraphs) :
        (pc \in {"output", "done"} /\ FirstMarkerAt(m)) =>
            /\ i <= m - 1
            /\ questions = parse_questions(SubSeq(lines, 1, m - 1))
            /\ questions = parse_questions(lines)
            /\ pc = "done" =>
                  out = QuestionBlocks(questions, 1, answers) \o <<PageBreak>>
                        \o SubSeq(Texts, m, Len(paragraphs))

C2_Witness ==
    /\ pc = "done"
    /\ Len(questions) = 2
    /\ \E m \in 1..(Len(paragraphs) - 1) : FirstMarkerAt(m)

\* the question records collected by the loop, before normalisation
Collected == qs \o current
FirstFive(opts) == SubSeq(opts, 1, IF Len(opts) < 5 THEN Len(opts) ELSE 5)

C3_Slots ==
    pc \in {"output", "done"} =>
        /\ Len(questions) = Len(Collected)
        /\ \A n \in 1..Len(questions) :
              /\ Len(questions[n].options) = 5
              /\ \A k \in 1..5 :
                    questions[n].options[k] =
                        IF k <= Len(Collected[n].options)
                        THEN Collected[n].options[k] ELSE <<>>

C3_Overflow ==
    ( /\ current # <<>> /\ current' # <<>>
      /\ current'[1].number = current[1].number
      /\ \/ Len(current[1].options) >= 6
         \/ Len(current[1].options) = 5 /\ Len(current'[1].options) = 6 )
    => /\ FirstFive(current'[1].options) = FirstFive(current[1].options)
       /\ current'[1].question = current[1].question

\* C3: every returned question has exactly 5 option slots, the first
\* min(k,5) collected option texts in order and then empty strings; lines
\* met once five options are held (a sixth option, and the continuation
\* lines after it) change neither the first five options nor the text.
C3_FiveOptionSlots == [](C3_Slots) /\ [][C3_Overflow]_vars

C3_Witness ==
    /\ pc = "done"
    /\ \E n \in 1..Len(Collected) :
          /\ Len(Collected[n].options) > 5
          /\ Collected[n].options[6] # clean_option_text(TextOption)
          /\ Collected[n].options[6] # clean_option_text(TextNumbered)

\* C4: parsing the lines create_output_doc writes for the questions gives
\* the same number of questions with the same 5 option texts.
C4_RoundTrip ==
    pc = "done" =>
        LET again == parse_questions(QuestionBlocks(questions, 1, answers))
        IN  /\ Len(again) = Len(questions)
            /\ \A n \in 1..Len(questions) : again[n].options = questions[n].options

\* paragraph n went through the numbering branch of process_docx
Resolved(n) ==
    /\ n \in 1..p
    /\ paragraphs[n].numId # None
    /\ \A m \in 1..n : ~MarkerAt(m)
\* the number of paragraphs of list X among the first n
ListRank(X, n) == Cardinality({ m \in 1..n : paragraphs[m].numId = X })
StyleOf(X, L) == get_level_format_from_numId(numbering, X, L)

\* every resolved paragraph of list X sits at level L, whose format is
\* decimal with the template "%<L+1>."
FlatDecimalAt(X, L) ==
    /\ StyleOf(X, L).numFmt = "decimal"
    /\ StyleOf(X, L).lvlText = <<"%">> \o Str(L + 1) \o <<".">>
    /\ \A n \in 1..p : (Resolved(n) /\ paragraphs[n].numId = X) => LevelOf(paragraphs[n]) = L

\* C5: in a flat decimal list the i-th numbered paragraph gets the value i,
\* whatever number its text holds and whatever unnumbered paragraphs or
\* paragraphs of other lists lie in between.
C5_FlatListCounts ==
    \A X \in NumIds : \A L \in { LevelOf(paragraphs[n]) : n \in 1..p } :
        (pc = "read" /\ FlatDecimalAt(X, L)) =>
            \A n \in 1..p :
                (Resolved(n) /\ paragraphs[n].numId = X) =>
                    /\ lines[n] = Str(ListRank(X, n)) \o <<".", " ">> \o paragraphs[n].text
                    /\ counters[X][L] = ListRank(X, p)

C5_Witness ==
    /\ pc = "read"
    /\ p = Len(paragraphs)
    /\ FlatDecimalAt(1, 0)
    /\ ListRank(1, p) >= 3
    /\ \E n \in 2..(p - 1) : paragraphs[n].numId # 1 /\ paragraphs[1].numId = 1
                             /\ paragraphs[p].numId = 1

C6_NoDeeperCounter ==
    \A X \in NumIds :
        \A l \in DOMAIN counters[X] : l <= last_level_for_num[X]

ExampleLevels == <<0, 1, 1, 0, 1>>
C6_ExampleDoc ==
    /\ numbering = SampleNumbering
    /\ paragraphs = [n \in 1..5 |-> Numbered(TextBlank, 1, ExampleLevels[n])]

C6_Example ==
    (C6_ExampleDoc /\ p = 5) =>
        /\ lines[2] = <<"a", ")", " ">>
        /\ lines[3] = <<"b", ")", " ">>
        /\ lines[5] = <<"a", ")", " ">>
        /\ counters[1] = (0 :> 2 @@ 1 :> 1)

C6_Discard ==
    \A X \in NumIds :
        ( /\ counters'[X] # counters[X]
          /\ last_level_for_num[X] # -1
          /\ last_level_for_num'[X] <= last_level_for_num[X] )
        => LET L == last_level_for_num'[X]
           IN  /\ DOMAIN counters'[X] = { l \in DOMAIN counters[X] : l <= L } \cup {L}
               /\ counters'[X][L] = (IF L \in DOMAIN counters[X] THEN counters[X][L] ELSE 0) + 1
               /\ \A l \in DOMAIN counters[X] : l < L => counters'[X][l] = counters[X][l]

\* C6: a numbered paragraph at a level <= the previous level of its list
\* discards the list's deeper counters before its own counter is
\* incremented; levels [0,1,1,0,1] give level-1 counts [1,2,1]; after a
\* paragraph at level L the list holds no counter for a level above L.
C6_ShallowerResets == [](C6_NoDeeperCounter /\ C6_Example) /\ [][C6_Discard]_vars

C6_Witness == C6_ExampleDoc /\ p = 5 /\ pc = "done"

\* C7: every letter of the answer list comes from a line strictly before
\* the first non-MCQ marker.
C7_AnswersBeforeMarker == [][answers' # answers => j < non_mcq_index]_vars

C7_Bounded ==
    answers' # answers =>
        /\ start # None
        /\ ANSWER_KEY(lines[start])
        /\ \A m \in 1..(start - 1) : ~ANSWER_KEY(lines[m])
        /\ j >= start
        /\ \A t \in (start + 1)..(j + 1) : ~NON_MCQ_SECTION(lines[t])

\* C7 (amended): every letter of the answer list comes from a line after
\* the first 'Answer Key' line of the whole document, with no non-MCQ
\* marker line between that line and it.
C7_AnswersAfterKey == [][C7_Bounded]_vars

C7_Witness ==
    /\ pc = "done"
    /\ answers # <<>>
    /\ start > non_mcq_index

\* the lines after the answer-key marker
KeyRegion == SubSeq(lines, start + 1, Len(lines))
BareLetter(ln) == Len(ln) = 1 /\ ln[1] \in AnswerLetters
AnswerLine(a) == <<"A","n","s","w","e","r",":"," ">> \o <<a>>
Min(a, b) == IF a < b THEN a ELSE b

\* C8: an answer region of bare letters only is assigned by position: the
\* i-th letter, lower-cased, is the answer of question i.
C8_BareLetters ==
    ( /\ pc \in {"questions", "output", "done"}
      /\ start # None
      /\ \A n \in 1..Len(KeyRegion) : BareLetter(KeyRegion[n]) )
    => /\ answers = [n \in 1..Len(KeyRegion) |-> Lower(KeyRegion[n][1])]
       /\ pc = "done" =>
             \A k \in 1..Min(Len(questions), Len(KeyRegion)) :
                 out[8 * (k - 1) + 7] = AnswerLine(Lower(KeyRegion[k][1]))

C8_Witness ==
    /\ pc = "done"
    /\ start # None
    /\ Len(questions) = 3
    /\ Len(KeyRegion) = 3
    /\ \A n \in 1..3 : BareLetter(KeyRegion[n])
    /\ KeyRegion[1] # KeyRegion[2]
    /\ \E n \in 1..3 : Lower(KeyRegion[n][1]) # KeyRegion[n][1]

\* the scanned part of the region: up to the first non-MCQ marker line
RECURSIVE ScannedRegion(_)
ScannedRegion(region) ==
    IF region = <<>> \/ AnswerScanStops(Head(region)) THEN <<>>
    ELSE <<Head(region)>> \o ScannedRegion(Tail(region))

\* the isolated a-e tokens of a line, lower-cased, in order
RECURSIVE TokensFrom(_, _)
TokensFrom(ln, n) ==
    IF n > Len(ln) THEN <<>>
    ELSE (IF ln[n] \in AnswerLetters /\ WordBoundary(ln, n) /\ WordBoundary(ln, n + 1)
          THEN <<Lower(ln[n])>> ELSE <<>>) \o TokensFrom(ln, n + 1)
RECURSIVE RegionTokens(_)
RegionTokens(region) ==
    IF region = <<>> THEN <<>>
    ELSE TokensFrom(Head(region), 1) \o RegionTokens(Tail(region))

\* C9: when an answer-key marker exists and no line of the region has a
\* per-line form, the isolated a-e tokens of the region text are the
\* answers of questions 1..k.
C9_TokenFallback ==
    ( /\ pc = "done"
      /\ start # None
      /\ \A n \in 1..Len(ScannedRegion(KeyRegion)) :
            LineAnswers(Strip(ScannedRegion(KeyRegion)[n])) = <<>> )
    => answers = RegionTokens(ScannedRegion(KeyRegion))

\* where the block of question k starts in out, the first Len(answers)
\* questions having one line more
BlockStart(k) ==
    LET answered == Min(Len(questions), Len(answers))
    IN  IF k <= answered + 1 THEN 8 * (k - 1) + 1
        ELSE 8 * answered + 7 * (k - 1 - answered) + 1

TailLength == IF non_mcq_index < Len(lines) THEN 1 + Len(lines) - non_mcq_index ELSE 0

\* C10: question k gets an "Answer: <letter>" line iff the answer list has
\* at least k entries, the letter being the k-th; without an 'Answer Key'
\* marker the list is empty and every question is still emitted.
C10_AnswerLines ==
    pc = "done" =>
        /\ (\A n \in 1..Len(lines) : ~ANSWER_KEY(lines[n])) => answers = <<>>
        /\ Len(out) = 7 * Len(questions) + Min(Len(questions), Len(answers)) + TailLength
        /\ \A k \in 1..Len(questions) :
              /\ out[BlockStart(k)] =
                    <<"Q","u","e","s","t","i","o","n"," ">> \o Str(k) \o <<")", " ">>
                    \o questions[k].question
              /\ k <= Len(answers) =>
                    /\ out[BlockStart(k) + 6] = AnswerLine(answers[k])
                    /\ out[BlockStart(k) + 7] = <<>>
              /\ k > Len(answers) => out[BlockStart(k) + 6] = <<>>

C10_Witness ==
    /\ pc = "done"
    /\ Len(answers) >= 1
    /\ Len(questions) > Len(answers)


\* ------------------------------------------------------------------------
\* Properties of the segmenter loop
\* ------------------------------------------------------------------------
MarkerLine(ln) == NON_MCQ_SECTION(ln) \/ ANSWER_KEY(ln)
OptionLooking(ln) == OPTION_NUMERIC(ln) \/ OPTION_LETTER(ln)
\* the loop of parse_questions is about to look at a line
AtLine == pc = "questions" /\ i < Len(QuestionLines)
NextLine == QuestionLines[i + 1]

\* an option-looking line that starts no question, met with no question
\* open and none parsed
C11Case ==
    /\ AtLine
    /\ current = <<>> /\ qs = <<>>
    /\ ~MarkerLine(NextLine)
    /\ OptionLooking(NextLine) /\ ~QUESTION_START(NextLine)

\* C11 as claimed: such a line is ignored: no question record, no option,
\* no question number consumed.
C11_StrayOptionIgnored ==
    [][C11Case => (current' = <<>> /\ qs' = <<>> /\ qnum' = qnum /\ i' = i + 1)]_vars

C11_Placeholder ==
    C11Case =>
        /\ qnum = 1
        /\ current' = << [number |-> 1, question |-> <<>>,
                          options |-> <<clean_option_text(NextLine)>>] >>
        /\ NextLine = TextOption => current'[1].options = << <<"P">> >>
        /\ qs' = <<>>
        /\ qnum' = 2
        /\ i' = i + 1

\* C11 (amended): an option-looking line met with no question open and none
\* parsed opens a placeholder question: empty text, question number 1, the
\* cleaned line as its first option; the next number handed out is 2.
C11_StrayOptionPlaceholder == [][C11_Placeholder]_vars

C11_Witness ==
    /\ pc = "done"
    /\ Len(lines) >= 2 /\ lines[1] = TextOption
    /\ Len(questions) >= 2
    /\ questions[1].number = 1 /\ questions[1].question = <<>>
    /\ questions[1].options[1] = <<"P">>
    /\ questions[2].number = 2 /\ questions[2].question = TextQuestion


\* the style lookup of lines 28-51 finds no level definition
LookupFails(X, L) ==
    \/ ~numbering.present
    \/ X \notin DOMAIN numbering.num
    \/ numbering.num[X] \notin DOMAIN numbering.abstractNum
    \/ L \notin DOMAIN numbering.abstractNum[numbering.num[X]]

\* the running count of paragraph n's list at its level: the paragraphs of
\* the list at that level up to n, since the list last sat at a shallower level
RunCount(n) ==
    LET X == paragraphs[n].numId
        L == LevelOf(paragraphs[n])
    IN  Cardinality({ m \in 1..n :
            /\ paragraphs[m].numId = X /\ LevelOf(paragraphs[m]) = L
            /\ \A k \in m..n : paragraphs[k].numId = X => LevelOf(paragraphs[k]) >= L })

\* C12: a numbered paragraph whose style lookup fails still gets a line,
\* prefixed with the default "<n>. " where n is the running count of its
\* list at its level.
C12_DefaultPrefix ==
    pc = "read" =>
        /\ Len(lines) = p
        /\ \A n \in 1..p :
            (Resolved(n) /\ LookupFails(paragraphs[n].numId, LevelOf(paragraphs[n]))) =>
                lines[n] = Str(RunCount(n)) \o <<".", " ">> \o paragraphs[n].text

C12_Witness ==
    /\ pc = "read" /\ p = Len(paragraphs)
    /\ numbering.present
    /\ \E n \in 1..p : \E m \in 1..p :
        /\ Resolved(n) /\ Resolved(m)
        /\ paragraphs[n].numId = 1 /\ LookupFails(1, LevelOf(paragraphs[n]))
        /\ RunCount(n) = 2
        /\ paragraphs[m].numId = 2 /\ LookupFails(2, LevelOf(paragraphs[m]))


\* C13 as claimed: while a question is open every question-start line
\* closes it, without consuming the line.
C13_EveryStartCloses ==
    [][(AtLine /\ current # <<>> /\ ~MarkerLine(NextLine) /\ QUESTION_START(NextLine))
        => (qs' = Append(qs, current[1]) /\ current' = <<>> /\ i' = i)]_vars

\* 1-based position of the first marker line at or after n, Len(lines) + 1
\* without one
RECURSIVE MarkerFrom(_)
MarkerFrom(n) ==
    IF n > Len(lines) THEN n
    ELSE IF MarkerLine(lines[n]) THEN n ELSE MarkerFrom(n + 1)
FirstMarkerLine == MarkerFrom(1)
\* lines before the marker line M that open the first question: question
\* starts and option lines
Openers(M) == { n \in 1..(M - 1) : QUESTION_START(lines[n]) \/ OptionLooking(lines[n]) }
\* lines before the marker line M that close an open question
Closers(M) == { n \in 1..(M - 1) : QUESTION_START(lines[n]) /\ ~OptionLooking(lines[n]) }
Least(S) == CHOOSE x \in S : \A y \in S : x <= y
ExpectedQuestions(M, first) ==
    IF first = {} THEN 0
    ELSE 1 + Cardinality({ n \in Closers(M) : n > Least(first) })

C13_Close ==
    (AtLine /\ current # <<>> /\ ~MarkerLine(NextLine)
        /\ QUESTION_START(NextLine) /\ ~OptionLooking(NextLine))
    => (qs' = Append(qs, current[1]) /\ current' = <<>> /\ i' = i /\ qnum' = qnum)
C13_Reopen ==
    (AtLine /\ current = <<>> /\ qs # <<>>)
    => (current' = << [number |-> qnum, question |-> Strip(NextLine), options |-> <<>>] >>
        /\ qs' = qs /\ i' = i + 1)
C13_Count ==
    pc \in {"output", "done"} =>
        \E M \in {FirstMarkerLine} : \E first \in {Openers(M)} :
            Len(questions) = ExpectedQuestions(M, first)

\* C13 (amended): while a question is open, a question-start line that is
\* not an option line closes it and is reprocessed to open the next
\* question; a question-start line that matches an option pattern is taken
\* as an option.  The questions returned are the first opening line plus the
\* later non-option question-start lines before the first marker.
C13_NonOptionStartCloses == [](C13_Count) /\ [][C13_Close /\ C13_Reopen]_vars

C13_Witness ==
    /\ pc = "done"
    /\ Len(lines) = 3
    /\ lines[1] = TextQuestion /\ lines[2] = TextNumbered /\ lines[3] = TextQuestion
    /\ Len(questions) = 2
    /\ questions[1].options[1] = <<"b">>


\* the questions closed so far are numbered 1, 2, ... in order, the open
\* one has the next number, and qnum is the number after that
C14_Running ==
    pc \in {"questions", "finish"} =>
        /\ \A n \in 1..Len(qs) : qs[n].number = n
        /\ current # <<>> => current[1].number = Len(qs) + 1
        /\ qnum = Len(qs) + Len(current) + 1
C14_Result ==
    pc \in {"output", "done"} =>
        /\ \A n \in 1..Len(questions) : questions[n].number = n
        /\ Len(questions) = qnum - 1

\* C14: the question at position j of the result has number j, and every
\* question that was opened (qnum - 1 of them) is in the result exactly once.
C14_SequentialNumbers == C14_Running /\ C14_Result

C14_Witness ==
    /\ pc = "done"
    /\ Len(questions) = 3
    /\ questions[3].number = 3


\* the step that meets a marker line leaves the loop and changes nothing
C15_Break ==
    (AtLine /\ MarkerLine(NextLine))
    => (pc' = "finish" /\ UNCHANGED <<i, current, qs, qnum>>)
\* the question open when the loop ends is closed into the result, last
C15_Close ==
    (pc \in {"questions", "finish"} /\ pc' = "output")
    => /\ Len(questions') = Len(qs) + Len(current)
       /\ current # <<>> =>
            /\ questions'[Len(questions')].number = current[1].number
            /\ questions'[Len(questions')].question = current[1].question
\* no line at or after the first marker line is consumed, and the result is
\* that of the lines before it
C15_Stops ==
    pc \in {"finish", "output", "done"} =>
        \E M \in {FirstMarkerLine} :
            /\ i <= M - 1
            /\ pc # "finish" => questions = parse_questions(SubSeq(lines, 1, M - 1))

\* C15: the first non-MCQ or answer-key marker line ends the segmenter: the
\* open question is closed into the result and no line at or after the
\* marker opens a question, adds an option or extends a text.
C15_MarkerEndsSegmenter == [](C15_Stops) /\ [][C15_Break /\ C15_Close]_vars

C15_Witness ==
    /\ pc = "done"
    /\ FirstMarkerLine = 2 /\ Len(lines) = 3
    /\ lines[1] = TextQuestion /\ ANSWER_KEY(lines[2]) /\ lines[3] = TextNumbered
    /\ Len(questions) = 1
    /\ questions[1].options = [n \in 1..5 |-> <<>>]


\* a continuation line is about to be processed with a question open
C16Case ==
    /\ AtLine
    /\ current # <<>>
    /\ ~MarkerLine(NextLine) /\ ~OptionLooking(NextLine) /\ ~QUESTION_START(NextLine)

\* the open question after s was appended to its text (no options yet) or
\* to its last option
Extended(q, s) ==
    IF q.options = <<>>
    THEN [q EXCEPT !.question = @ \o s]
    ELSE [q EXCEPT !.options[Len(q.options)] = @ \o s]

\* C16 as claimed: the continuation line is appended after a single space.
C16_ContinuationAppended ==
    [][C16Case => current' = << Extended(current[1], <<" ">> \o NextLine) >>]_vars

C16_Continuation ==
    C16Case =>
        /\ current' = << Extended(current[1],
                                  IF Strip(NextLine) = <<>> THEN <<>>
                                  ELSE <<" ">> \o Strip(NextLine)) >>
        /\ Len(current'[1].options) = Len(current[1].options)
        /\ i' = i + 1 /\ qs' = qs /\ qnum' = qnum

\* C16 (amended): a continuation line, stripped of surrounding whitespace,
\* is appended after a single space to the question text (no options yet)
\* or to the last option, and nothing else of the question changes; a blank
\* continuation line changes nothing.
C16_StrippedContinuation == [][C16_Continuation]_vars

C16_Witness ==
    /\ pc = "done"
    /\ Len(lines) >= 3
    /\ lines[1] = TextNumbered /\ lines[2] = TextPlain /\ lines[3] = TextOption
    /\ questions[1].question = TextNumbered \o <<" ">> \o TextPlain
    /\ questions[1].options[1] = <<"P">>


\* an iteration that neither advances the index nor leaves the loop is the
\* close of the open question on a question-start line
C17_StallIsClose ==
    (AtLine /\ pc' = "questions" /\ i' = i)
    => /\ current # <<>> /\ current' = <<>>
       /\ QUESTION_START(NextLine) /\ ~MarkerLine(NextLine)
\* with no question open, a question-start line is consumed at once
C17_OpenAdvances ==
    (AtLine /\ current = <<>> /\ QUESTION_START(NextLine) /\ ~MarkerLine(NextLine))
    => (i' = i + 1 /\ current' # <<>>)
C17_Bound ==
    /\ iterations <= 2 * Len(QuestionLines)
    /\ pc = "questions" => iterations = i + Len(qs)
\* twice the lines left, less one while no question is open: every
\* iteration that stays in the loop lowers it, and it never goes below zero
Rank == 2 * (Len(QuestionLines) - i) + Len(current)
C17_RankFalls ==
    (AtLine /\ iterations' = iterations + 1 /\ pc' = "questions")
    => (Rank' < Rank /\ Rank' >= 0)

\* C17: parse_questions terminates: only the close of the open question
\* keeps the index, the next iteration consumes that line by opening a
\* question, and the loop runs at most 2*len(lines) iterations.
C17_Terminates ==
    /\ [](C17_Bound)
    /\ [][C17_StallIsClose /\ C17_OpenAdvances /\ C17_RankFalls]_vars

C17_Witness ==
    /\ pc = "done"
    /\ Len(QuestionLines) = 3
    /\ iterations = 5
    /\ Len(questions) = 3


\* with no question open and a question already closed, the line at hand
\* is a question-start line
C18_AtStart ==
    (AtLine /\ current = <<>> /\ (qs # <<>> \/ qnum > 1))
    => (qs # <<>> /\ QUESTION_START(NextLine) /\ ~MarkerLine(NextLine))
\* a closed question is never changed again
C18_ClosedFrozen ==
    pc = "questions" =>
        /\ Len(qs') >= Len(qs)
        /\ \A n \in 1..Len(qs) : qs'[n] = qs[n]
\* once a question has been opened no line is skipped
C18_NoSkip ==
    (AtLine /\ qnum > 1 /\ ~MarkerLine(NextLine))
    => ~(i' = i + 1 /\ current = <<>> /\ current' = <<>>)

\* C18: an iteration that starts with no question open and a question
\* already closed looks at a question-start line; so no option-looking
\* line is attached to a closed question, and no line after the first
\* opened question is skipped as a stray line.
C18_NoAttachToClosed == [](C18_AtStart) /\ [][C18_ClosedFrozen /\ C18_NoSkip]_vars

C18_Witness ==
    /\ AtLine
    /\ current = <<>> /\ Len(qs) = 1
    /\ i + 2 <= Len(QuestionLines)
    /\ OptionLooking(QuestionLines[i + 2])


\* the levels of the resolved paragraphs of list X among the first n
RECURSIVE ListLevels(_, _)
ListLevels(X, n) ==
    IF n = 0 THEN <<>>
    ELSE ListLevels(X, n - 1) \o
         (IF Resolved(n) /\ paragraphs[n].numId = X THEN <<LevelOf(paragraphs[n])>> ELSE <<>>)
\* the counters and the last level of a list whose paragraphs, at these
\* levels, are processed alone
RECURSIVE Alone(_)
Alone(levels) ==
    IF levels = <<>> THEN [cs |-> <<>>, last |-> -1]
    ELSE LET before == Alone(SubSeq(levels, 1, Len(levels) - 1))
             l == levels[Len(levels)]
         IN  [cs |-> BumpCounters(before.cs, before.last, l), last |-> l]

C19_Frame ==
    \A B \in NumIds :
        (pc = "read" /\ p' = p + 1 /\ paragraphs[p + 1].numId # B)
        => (counters'[B] = counters[B] /\ last_level_for_num'[B] = last_level_for_num[B])
C19_AsAlone ==
    pc = "read" =>
        \A X \in NumIds :
            \E alone \in {Alone(ListLevels(X, p))} :
                counters[X] = alone.cs /\ last_level_for_num[X] = alone.last

\* C19: a numbered paragraph of one list changes no counter and no last
\* level of another list; each list ends with the counters it would have
\* if its paragraphs were processed alone.
C19_ListsIndependent == [](C19_AsAlone) /\ [][C19_Frame]_vars

C19_Witness ==
    /\ pc = "read" /\ p = 4
    /\ ListLevels(1, 4) = <<0, 1>>
    /\ ListLevels(2, 4) = <<0, 0>>
    /\ paragraphs[1].numId = 1 /\ paragraphs[2].numId = 2 /\ paragraphs[3].numId = 1
    /\ counters = <<(0 :> 1 @@ 1 :> 1), (0 :> 2)>>


\* the position of the first marker paragraph among paragraphs n..k, k + 1
\* without one
RECURSIVE MarkerParaFrom(_, _)
MarkerParaFrom(n, k) ==
    IF n > k THEN n
    ELSE IF NON_MCQ_SECTION(paragraphs[n].text) THEN n ELSE MarkerParaFrom(n + 1, k)
FirstMarkerPara(k) == MarkerParaFrom(1, k)

\* from the first marker paragraph (M) on, a paragraph is appended as its
\* raw text and the counters stay as they are; the index is set at M
C20_RawTail ==
    (pc = "read" /\ p' = p + 1) =>
        \E M \in {FirstMarkerPara(p + 1)} :
            /\ M <= p + 1 =>
                /\ lines' = Append(lines, paragraphs[p + 1].text)
                /\ UNCHANGED <<counters, last_level_for_num>>
            /\ M = p + 1 => (non_mcq_index = None /\ non_mcq_index' = p)
\* once set, the index is kept
C20_SetOnce == non_mcq_index # None => non_mcq_index' = non_mcq_index
C20_Index ==
    pc = "read" =>
        \E M \in {FirstMarkerPara(p)} :
            non_mcq_index = IF M <= p THEN M - 1 ELSE None

\* C20: from the first paragraph whose text holds a non-MCQ marker on,
\* every paragraph is appended raw, without prefix, and the counters and
\* last levels stay unchanged; non_mcq_index is set once, to the position of
\* that paragraph, and never changes.
C20_TailUnresolved == [](C20_Index) /\ [][C20_RawTail /\ C20_SetOnce]_vars

C20_Witness ==
    /\ pc = "done"
    /\ Len(paragraphs) = 5
    /\ FirstMarkerAt(3) /\ non_mcq_index = 2
    /\ paragraphs[4].numId = 1 /\ lines[4] = TextItem
    /\ paragraphs[5].numId = 1 /\ lines[5] = TextItem
    /\ counters[1] = <<>> /\ last_level_for_num[1] = -1

====
